---- MODULE Spec2Model ----
(***************************************************************************)
(* Model of the looker-data-viz tree map visualization                     *)
(* (app/src/common/util.ts and the treemap visualization object).          *)
(*                                                                         *)
(* The state is the visualization object as the host sees it: the SVG      *)
(* frame with its node groups, the host's error list, the process-wide uid *)
(* counter, the last drill menu the host was asked to open.                *)
(* Numbers are integers; a quotient n/d is kept as the pair [n, d], so     *)
(* that n/0 (plus or minus Infinity in the code) stays visible.            *)
(***************************************************************************)
EXTENDS Integers, Sequences, FiniteSets, TLC

VARIABLES
  uid,        \* util.ts:83    let uid = 0
  errors,     \* the host's error list, one slot per error group
  nodes,      \* the 'g.node' elements of this.frame, in document order
  errorApi,   \* the host provides vis.addError and vis.clearErrors
  drill,      \* the links of the last LookerCharts.Utils.openDrillMenu call
  host,       \* what the host holds at create(): the arguments of its first update call
  options,    \* the ValidationOptions the visualization passes to validateResponse
  focus,      \* the focus-ring rects of the frame, this.focusRing, the focused node
  last        \* what the latest operation was and what it returned

vars == <<uid, errors, errorApi, nodes, drill, host, options, focus, last>>

(***************************************************************************)
(* Bounds of the model.                                                    *)
(***************************************************************************)
MaxRows == 2      \* rows of a query result
MaxFormat == 3    \* characters of a value format
MaxUid == 5       \* the uid counter is followed up to this value
MaxCount == 2     \* pivots / dimensions / measures counted by validateResponse
MaxRings == 3     \* focus-ring rects the frame is followed up to

Null == "<null>"                    \* the null dimension value
DimNames == <<"d1", "d2">>          \* names of the dimension fields
DimKeys == <<{"a", "b"}, {"x", Null}>>  \* values of each dimension
PVals == {-1, 0, 1, 2}              \* values of the primary cell
SVals == {0, 1}                     \* values of the secondary cell
Paths == {"/A", "/B"}               \* url path names
ParamKeys == {"x", "y"}             \* query parameter names
ParamVals == {"1", "2"}             \* query parameter values
FormatChars == {"$", "£", "0", "1", ",", ".", "%"}  \* characters of a value format

(***************************************************************************)
(* Program constants.                                                      *)
(***************************************************************************)
MARGIN == 1
DEFAULT_PALETTE == <<"#002060", "#0042C7", "#97BAFF", "#7F7F7F">>
DEFAULT_GRADIENT == <<"#E1E0DF", "#002060">>

(***************************************************************************)
(* Data of the host: links, cells, rows, query responses, configurations.  *)
(***************************************************************************)
\* A link url as new URL(link.url, window.location.href) parses it: the path
\* name and the ordered list of (name, value) query parameters.
Param(k, v) == [key |-> k, value |-> v]
Url(p, ps) == [pathname |-> p, searchParams |-> ps]
Cell(v, ls) == [value |-> v, links |-> ls]
\* A row: the value of each dimension field, the cell getCell finds at
\* position 0 (p) and the cell it finds at position 1 (s).
Row(d, p, s) == [d |-> d, p |-> p, s |-> s]
NoRow == Row(<<>>, Cell(0, <<>>), Cell(0, <<>>))
\* An optional number (undefined, or a number).
Unset == [set |-> FALSE, v |-> 0]
Num(n) == [set |-> TRUE, v |-> n]
\* queryResponse: the number of fields of each kind (fields.dimensions,
\* fields.measures, fields.table_calculations) and of pivots.
QueryResponse(nd, nm, nt, np) ==
  [dimensions |-> nd, measures |-> nm, table_calculations |-> nt, pivots |-> np]
\* arr[position] is defined
Has(count, position) == count > position

SeqsUpTo(S, n) == UNION {[1..k -> S] : k \in 0..n}

RECURSIVE SumSeq(_)
SumSeq(s) == IF s = <<>> THEN 0 ELSE Head(s) + SumSeq(Tail(s))

RECURSIVE MaxSeq(_)
MaxSeq(s) ==
  IF Len(s) = 1 THEN Head(s)
  ELSE LET m == MaxSeq(Tail(s)) IN IF Head(s) > m THEN Head(s) ELSE m

RECURSIVE MinSeq(_)
MinSeq(s) ==
  IF Len(s) = 1 THEN Head(s)
  ELSE LET m == MinSeq(Tail(s)) IN IF Head(s) < m THEN Head(s) ELSE m

RECURSIVE Concat(_)
Concat(ss) == IF ss = <<>> THEN <<>> ELSE Head(ss) \o Concat(Tail(ss))

(***************************************************************************)
(* buildHierarchy: Map<key, Datum> as an insertion-ordered list of         *)
(* entries; a Datum is a row or a Map.                                     *)
(***************************************************************************)
RowDatum(row) == [type |-> "row", row |-> row, entries |-> <<>>]
MapDatum(es) == [type |-> "map", row |-> NoRow, entries |-> es]
NewMap == MapDatum(<<>>)

MapHas(map, key) == \E i \in 1..Len(map.entries) : map.entries[i].key = key
MapGet(map, key) ==
  map.entries[CHOOSE i \in 1..Len(map.entries) : map.entries[i].key = key].datum
\* Map.prototype.set: an existing key keeps its place and takes the new value
MapSet(map, key, datum) ==
  IF MapHas(map, key)
    THEN MapDatum([i \in 1..Len(map.entries) |->
           IF map.entries[i].key = key
             THEN [key |-> key, datum |-> datum]
             ELSE map.entries[i]])
    ELSE MapDatum(Append(map.entries, [key |-> key, datum |-> datum]))

\* a flatten that groups by the first dimension only
flattenOneLevel(dimensions, datum, row) ==
  IF Len(dimensions) = 0
    THEN RowDatum(row)
    ELSE MapSet(datum, row.d[Head(dimensions)], RowDatum(row))

RECURSIVE flatten(_, _, _)
flatten(dimensions, datum, row) ==
  IF Len(dimensions) = 0
    THEN RowDatum(row)
    ELSE LET dim == Head(dimensions)
             rest == Tail(dimensions)
             key == row.d[dim]
             child == IF MapHas(datum, key) THEN MapGet(datum, key) ELSE NewMap
         IN  MapSet(datum, key, flatten(rest, child, row))

\* data.reduce(flatten(dimensions), new Map())
RECURSIVE reduceRows(_, _, _)
reduceRows(data, dimensions, acc) ==
  IF data = <<>> THEN acc
  ELSE reduceRows(Tail(data), dimensions, flatten(dimensions, acc, Head(data)))

\* d3 hierarchy(): one node per datum; the children accessor gives the entries
\* of a Map and null for a row; a node with no child has no children array.
\* path stands for the parent links: the labels from depth 1 down to the node.
RECURSIVE hierarchy(_, _, _, _)
hierarchy(label, datum, depth, path) ==
  LET childs == IF datum.type = "map" THEN datum.entries ELSE <<>>
      kids == [i \in 1..Len(childs) |->
                hierarchy(childs[i].key, childs[i].datum, depth + 1,
                          Append(path, childs[i].key))]
  IN  [label |-> label,
       isMap |-> datum.type = "map",
       row |-> datum.row,
       depth |-> depth,
       height |-> IF Len(kids) = 0 THEN 0
                  ELSE 1 + MaxSeq([i \in 1..Len(kids) |-> kids[i].height]),
       path |-> path,
       value |-> 0,
       children |-> kids]

\* the dimension fields of a query response, as indexes into a row's d
DimensionFields(queryResponse) == [i \in 1..queryResponse.dimensions |-> i]

buildHierarchy(data, dimensions) ==
  hierarchy("root", reduceRows(data, dimensions, NewMap), 0, <<>>)
(***************************************************************************)
(* getCell: the cell of a row at a measure position (0 primary, 1          *)
(* secondary). The result is a cell, undefined (no branch taken), or a     *)
(* TypeError (measures[0] read when there is no measure).                  *)
(***************************************************************************)
getCell(queryResponse, position, row) ==
  LET cell == IF position = 0 THEN row.p ELSE row.s
  IN  IF Has(queryResponse.table_calculations, position)
        THEN [kind |-> "cell", cell |-> cell]
      ELSE IF Has(queryResponse.pivots, position)
        THEN IF Has(queryResponse.measures, 0)
               THEN [kind |-> "cell", cell |-> cell]
               ELSE [kind |-> "throw", cell |-> cell]
      ELSE IF Has(queryResponse.measures, position)
        THEN [kind |-> "cell", cell |-> cell]
      ELSE [kind |-> "undefined", cell |-> cell]

(***************************************************************************)
(* d3-hierarchy: node.sum, node.sort, node.descendants, node.leaves.       *)
(***************************************************************************)
\* a value callback that counts a branch itself as one unit
sumValueCountingBranches(queryResponse, node) ==
  IF node.isMap THEN 1 ELSE getCell(queryResponse, 0, node.row).cell.value

\* the value callback of update: 0 for a Map, the primary cell's value for a row
sumValue(queryResponse, node) ==
  IF node.isMap THEN 0 ELSE getCell(queryResponse, 0, node.row).cell.value

\* node.sum(value): post-order, node.value = value(node.data) + the children's values
RECURSIVE sum(_, _)
sum(queryResponse, node) ==
  LET kids == [i \in 1..Len(node.children) |-> sum(queryResponse, node.children[i])]
  IN  [node EXCEPT
         !.children = kids,
         !.value = sumValue(queryResponse, node)
                     + SumSeq([i \in 1..Len(kids) |-> kids[i].value])]

\* the comparator of update: (a, b) => b.value - a.value
compareNodes(a, b) == b.value - a.value

\* an insertion that puts x before the elements it compares equal to
RECURSIVE insertBeforeEquals(_, _)
insertBeforeEquals(sorted, x) ==
  IF sorted = <<>> THEN <<x>>
  ELSE IF compareNodes(Head(sorted), x) >= 0
         THEN <<x>> \o sorted
         ELSE <<Head(sorted)>> \o insertBeforeEquals(Tail(sorted), x)

\* Array.prototype.sort is stable: x goes after every element it does not precede
RECURSIVE insertSorted(_, _)
insertSorted(sorted, x) ==
  IF sorted = <<>> THEN <<x>>
  ELSE IF compareNodes(Head(sorted), x) > 0
         THEN <<x>> \o sorted
         ELSE <<Head(sorted)>> \o insertSorted(Tail(sorted), x)

RECURSIVE sortSeq(_)
sortSeq(s) ==
  IF s = <<>> THEN <<>>
  ELSE insertSorted(sortSeq(SubSeq(s, 1, Len(s) - 1)), s[Len(s)])

\* node.sort(compare): the children of every node, sorted
RECURSIVE sort(_)
sort(node) ==
  [node EXCEPT !.children =
     sortSeq([i \in 1..Len(node.children) |-> sort(node.children[i])])]

\* node.descendants(): breadth-first, the node itself first
RECURSIVE breadthFirst(_)
breadthFirst(queue) ==
  IF queue = <<>> THEN <<>>
  ELSE <<Head(queue)>> \o breadthFirst(Tail(queue) \o Head(queue).children)

descendants(node) == breadthFirst(<<node>>)

\* node.leaves(): the nodes without children, in pre-order
RECURSIVE leaves(_)
leaves(node) ==
  IF Len(node.children) = 0 THEN <<node>>
  ELSE Concat([i \in 1..Len(node.children) |-> leaves(node.children[i])])

(***************************************************************************)
(* node.sum over the cell values a row can hold. The operators above take  *)
(* the cell values to be integers, for which +v || 0 is v; here a cell     *)
(* value is any scalar and a node's value is a JavaScript number: finite,  *)
(* NaN, Infinity or -Infinity.                                             *)
(***************************************************************************)
Scalar(kind, n) == [kind |-> kind, n |-> n]
Finite(n) == Scalar("number", n)
NaN == Scalar("NaN", 0)
Infinity(sign) == Scalar("Infinity", sign)

\* +v: the number of a scalar
ToNumber(v) ==
  CASE v.kind \in {"number", "Infinity", "NaN"} -> v
    [] v.kind = "null" -> Finite(0)
    [] OTHER -> NaN    \* undefined, a text that is not a number

\* x || 0
OrZero(x) == IF x = NaN \/ x = Finite(0) THEN Finite(0) ELSE x

\* a + b on numbers
Plus(a, b) ==
  IF a = NaN \/ b = NaN THEN NaN
  ELSE IF a.kind = "Infinity" /\ b.kind = "Infinity"
    THEN IF a.n = b.n THEN a ELSE NaN
  ELSE IF a.kind = "Infinity" THEN a
  ELSE IF b.kind = "Infinity" THEN b
  ELSE Finite(a.n + b.n)

RECURSIVE PlusSeq(_, _)
PlusSeq(acc, s) == IF s = <<>> THEN acc ELSE PlusSeq(Plus(acc, Head(s)), Tail(s))

\* d3 node.sum(value): var sum = +value(node.data) || 0; then sum +=
\* children[i].value for every child, the last child first
RECURSIVE sumScalars(_, _)
sumScalars(queryResponse, node) ==
  LET kids == [i \in 1..Len(node.children) |->
                 sumScalars(queryResponse, node.children[i])]
      own == IF node.isMap THEN Finite(0)
             ELSE getCell(queryResponse, 0, node.row).cell.value
  IN  [node EXCEPT
         !.children = kids,
         !.value = PlusSeq(OrZero(ToNumber(own)),
                           [i \in 1..Len(kids) |-> kids[Len(kids) + 1 - i].value])]

(***************************************************************************)
(* weightedMean: numerator && numerator / denominator. A quotient is the   *)
(* pair [n, d]; d = 0 with n # 0 is the code's plus or minus Infinity.     *)
(***************************************************************************)
Frac(n, d) == [n |-> n, d |-> d]

\* a mean that divides by the number of items, not by the sum of the weights
weightedMeanByCount(collection, value, weight) ==
  LET denominator == Len(collection)
      numerator == SumSeq([i \in 1..Len(collection) |-> weight[i] * value[i]])
  IN  IF numerator = 0 THEN Frac(0, 1) ELSE Frac(numerator, denominator)

weightedMean(collection, value, weight) ==
  LET denominator == SumSeq([i \in 1..Len(collection) |-> weight[i]])
      numerator == SumSeq([i \in 1..Len(collection) |-> weight[i] * value[i]])
  IN  IF numerator = 0 THEN Frac(0, 1) ELSE Frac(numerator, denominator)
(***************************************************************************)
(* The host's error list (vis.addError, vis.clearErrors): a set of error   *)
(* objects; clearErrors(group) drops the errors of one group and           *)
(* clearErrors() drops them all.                                           *)
(***************************************************************************)
NoGroup == "<undefined>"
Error(group, title, message) == [group |-> group, title |-> title, message |-> message]
addError(errs, error) == errs \cup {error}
clearErrors(errs, group) == {e \in errs : e.group # group}
clearAllErrors(errs) == {}

(***************************************************************************)
(* CGroup.validate and validateResponse. A text is the list of its parts;  *)
(* the empty text is <<>>.                                                 *)
(***************************************************************************)
Truthy(opt) == opt.set /\ opt.v # 0
CGroup(name, noun, count, max, min) ==
  [name |-> name, noun |-> noun, count |-> count, max |-> max, min |-> min]

toLowerCase(noun) ==
  CASE noun = "Pivot" -> "pivot"
    [] noun = "Dimension" -> "dimension"
    [] noun = "Measure" -> "measure"
    [] OTHER -> noun

pluralize(group) ==
  <<toLowerCase(group.noun), IF group.min = Num(1) THEN "" ELSE "s">>

\* a validate that writes the message of a 'min' error only
validateMinMessageOnly(group) ==
  LET eType == IF Truthy(group.min) /\ group.count < group.min.v THEN "min"
               ELSE IF Truthy(group.max) /\ group.count > group.max.v THEN "max"
               ELSE ""
      required == IF group.min # group.max THEN "at least" ELSE "exactly"
  IN  IF eType = "min"
        THEN Error(group.name,
                   <<"Not Enough", group.noun, "s">>,
                   <<"This visualization requires", required, ToString(group.min.v)>>
                     \o pluralize(group) \o <<".">>)
      ELSE IF eType = "max"
        THEN Error(group.name, <<"Too many", group.noun, "s">>, <<>>)
      ELSE Error(group.name, <<>>, <<>>)

validate(group) ==
  LET eType == IF Truthy(group.min) /\ group.count < group.min.v THEN "min"
               ELSE IF Truthy(group.max) /\ group.count > group.max.v THEN "max"
               ELSE ""
      msgRequired == IF eType = "min" THEN "at least" ELSE "no more than"
      msgTitle == IF eType = "min" THEN "Not Enough" ELSE "Too many"
      msgValue == IF eType = "min" THEN group.min ELSE group.max
      required == IF group.min # group.max THEN msgRequired ELSE "exactly"
  IN  IF eType # ""
        THEN Error(group.name,
                   <<msgTitle, group.noun, "s">>,
                   <<"This visualization requires", required, ToString(msgValue.v)>>
                     \o pluralize(group) \o <<".">>)
        ELSE Error(group.name, <<>>, <<>>)

\* check: the errors of the host after the check, and what the check returns
check(api, errs, group) ==
  IF ~api THEN [errors |-> errs, ret |-> FALSE]
  ELSE LET error == validate(group)
       IN  IF error.title # <<>>
             THEN [errors |-> addError(errs, error), ret |-> FALSE]
             ELSE [errors |-> clearErrors(errs, group.name), ret |-> TRUE]

\* counts: the lengths of fields.pivots, fields.dimensions, fields.measure_like
validateResponse(api, errs, counts, opts) ==
  LET c1 == check(api, errs, CGroup("pivot-req", "Pivot", counts[1],
                                    opts.max_pivots, opts.min_pivots))
      c2 == check(api, c1.errors, CGroup("dim-req", "Dimension", counts[2],
                                         opts.max_dimensions, opts.min_dimensions))
      c3 == check(api, c2.errors, CGroup("mes-req", "Measure", counts[3],
                                         opts.max_measures, opts.min_measures))
  IN  IF ~c1.ret THEN c1 ELSE IF ~c2.ret THEN c2 ELSE c3

(***************************************************************************)
(* __hasError: the error it adds, if any.                                  *)
(***************************************************************************)
\* an error check that does not look at the dimensions
hasErrorTitleIgnoringDimensions(queryResponse) ==
  IF ~Has(queryResponse.measures, 0) /\ ~Has(queryResponse.table_calculations, 0)
    THEN <<"Primary Measure Required">>
  ELSE <<>>

\* an error check that does not accept a table calculation as the primary measure
hasErrorTitleMeasuresOnly(queryResponse) ==
  IF queryResponse.dimensions = 0
    THEN <<"Dimensions Required">>
  ELSE IF ~Has(queryResponse.measures, 0)
    THEN <<"Primary Measure Required">>
  ELSE <<>>

hasErrorTitle(queryResponse) ==
  IF queryResponse.dimensions = 0
    THEN <<"Dimensions Required">>
  ELSE IF ~Has(queryResponse.measures, 0) /\ ~Has(queryResponse.table_calculations, 0)
    THEN <<"Primary Measure Required">>
  ELSE <<>>

hasErrorMessage(queryResponse) ==
  IF queryResponse.dimensions = 0
    THEN <<"Please include at least one dimension.">>
  ELSE IF ~Has(queryResponse.measures, 0) /\ ~Has(queryResponse.table_calculations, 0)
    THEN <<"Please include at least one un-pivoted measure or table calculation.">>
  ELSE <<>>

\* an error check that does not clear the errors the host holds
hasErrorKeeping(errs, queryResponse) ==
  LET title == hasErrorTitle(queryResponse)
  IN  IF title # <<>>
        THEN [errors |-> addError(errs,
                                  Error(NoGroup, title, hasErrorMessage(queryResponse))),
              ret |-> TRUE]
        ELSE [errors |-> errs, ret |-> FALSE]

\* the errors of the host after __hasError, and what it returns
hasError(errs, queryResponse) ==
  LET title == hasErrorTitle(queryResponse)
      cleared == clearAllErrors(errs)
  IN  IF title # <<>>
        THEN [errors |-> addError(cleared,
                                  Error(NoGroup, title, hasErrorMessage(queryResponse))),
              ret |-> TRUE]
        ELSE [errors |-> cleared, ret |-> FALSE]
(***************************************************************************)
(* update: the pipeline after the error check.                             *)
(***************************************************************************)
\* config: the options update reads. palette and gradient: <<>> is undefined;
\* measureFormat: a text is the list of its characters, <<>> is undefined or ''.
\* fontSize and hideClippedLabels have their default values.
Config(displayMeasure, gradientMin, gradientMax, measureFormat, palette, gradient) ==
  [displayMeasure |-> displayMeasure, gradientMin |-> gradientMin,
   gradientMax |-> gradientMax, measureFormat |-> measureFormat,
   palette |-> palette, gradient |-> gradient, fontSize |-> 14,
   hideClippedLabels |-> FALSE]

isWeighted(queryResponse) ==
  Has(queryResponse.table_calculations, 1) \/ Has(queryResponse.pivots, 1)
    \/ Has(queryResponse.measures, 1)

\* extent(data.map(row => getCell(queryResponse, 1, row).value)); of no row,
\* [undefined, undefined]
extent(values) ==
  IF values = <<>> THEN <<Unset, Unset>>
  ELSE <<Num(MinSeq(values)), Num(MaxSeq(values))>>

\* a domain that takes a supplied bound only when it is not 0
gradientDomainTruthy(config, data) ==
  LET domain == extent([i \in 1..Len(data) |-> data[i].s.value])
  IN  <<IF Truthy(config.gradientMin) THEN config.gradientMin ELSE domain[1],
        IF Truthy(config.gradientMax) THEN config.gradientMax ELSE domain[2]>>

\* the domain given to scaleSecondaryMeasure
gradientDomain(config, data) ==
  LET domain == extent([i \in 1..Len(data) |-> data[i].s.value])
  IN  <<IF config.gradientMin.set THEN config.gradientMin ELSE domain[1],
        IF config.gradientMax.set THEN config.gradientMax ELSE domain[2]>>

\* the root of the cycle: buildHierarchy(...).sum(...).sort(...)
rootOf(data, queryResponse) ==
  sort(sum(queryResponse, buildHierarchy(data, DimensionFields(queryResponse))))

\* what a rendered element keeps of the hierarchy node bound to it
Datum(node) ==
  LET ls == leaves(node)
  IN  [label |-> node.label, depth |-> node.depth, height |-> node.height,
       value |-> node.value, path |-> node.path,
       rows |-> [i \in 1..Len(ls) |-> ls[i].row]]

\* layout(root).descendants().filter(dNode => dNode.depth > 0)
joinData(root) ==
  LET all == descendants(root)
  IN  [i \in 1..(Len(all) - 1) |-> Datum(all[i + 1])]

NoFill == [kind |-> "none", metric |-> Frac(0, 1), domain |-> <<Unset, Unset>>,
           color |-> "", stops |-> <<>>]
NoText == [set |-> FALSE, dimension |-> "", measure |-> <<>>]
NoHandlers == [bound |-> FALSE, queryResponse |-> QueryResponse(0, 0, 0, 0)]

\* a generateUid that hands out the counter's value again once it exceeds 2
generateUidWrapping(u) == IF u >= 2 THEN 1 ELSE u + 1

\* generateUid: ++uid, the new value of the counter, which is also returned
generateUid(u) == u + 1

\* what the n-th of n successive generateUid calls returns, the counter being
\* u before them
RECURSIVE generateUids(_, _)
generateUids(u, n) ==
  IF n <= 1 THEN generateUid(u) ELSE generateUid(generateUids(u, n - 1))

\* a join that calls generateUid once for all the entering elements
joinOneUid(old, data, uid0) ==
  [i \in 1..Len(data) |->
     IF i <= Len(old)
       THEN [old[i] EXCEPT !.datum = data[i]]
       ELSE [uid |-> generateUid(uid0), datum |-> data[i],
             fill |-> NoFill, text |-> NoText, on |-> NoHandlers]]

\* selection.data(...).join(enter => ...): the elements are matched to the data
\* by index; an entering element takes the next uid; the others are removed.
join(old, data, uid0) ==
  [i \in 1..Len(data) |->
     IF i <= Len(old)
       THEN [old[i] EXCEPT !.datum = data[i]]
       ELSE [uid |-> generateUids(uid0, i - Len(old)), datum |-> data[i],
             fill |-> NoFill, text |-> NoText, on |-> NoHandlers]]

\* a colour scale that gives every key the first colour of the range
colorOfFirst(keys, range, key) == IF range = <<>> THEN "" ELSE range[1]

\* scaleOrdinal().domain(keys).range(range): the colour of a key
color(keys, range, key) ==
  LET i == CHOOSE j \in 1..Len(keys) : keys[j] = key
  IN  IF range = <<>> THEN "" ELSE range[((i - 1) % Len(range)) + 1]

\* dNode.ancestors().slice(-2, -1)[0].data[0]: the label of the ancestor at depth 1
ancestorBelowRoot(datum) == datum.path[1]

\* boxFill: the fill of the box of a node
boxFill(queryResponse, config, data, root, datum) ==
  IF isWeighted(queryResponse)
    THEN [kind |-> "gradient",
          metric |-> weightedMean(datum.rows,
                       [i \in 1..Len(datum.rows) |->
                          getCell(queryResponse, 1, datum.rows[i]).cell.value],
                       [i \in 1..Len(datum.rows) |->
                          getCell(queryResponse, 0, datum.rows[i]).cell.value]),
          domain |-> gradientDomain(config, data),
          color |-> "",
          stops |-> IF config.gradient = <<>> THEN DEFAULT_GRADIENT
                    ELSE config.gradient]
    ELSE [kind |-> "categorical", metric |-> Frac(0, 1),
          domain |-> <<Unset, Unset>>,
          color |-> color([i \in 1..Len(root.children) |-> root.children[i].label],
                          IF config.palette = <<>> THEN DEFAULT_PALETTE
                          ELSE config.palette,
                          ancestorBelowRoot(datum)),
          stops |-> <<>>]

(***************************************************************************)
(* formatType: the d3 format specifier of a spreadsheet-style value        *)
(* format. A text is the list of its characters; the specifier is the list *)
(* of the parts appended to it.                                            *)
(***************************************************************************)
\* key in array: the property names of an array are its indices and 'length'
InArray(key, array) ==
  key \in {ToString(i - 1) : i \in 1..Len(array)} \cup {"length"}

\* valueFormat.indexOf(c) > -1
Contains(text, c) == \E i \in 1..Len(text) : text[i] = c

\* valueFormat.split('.'): the texts between the dots
RECURSIVE split(_)
split(text) ==
  IF ~Contains(text, ".") THEN <<text>>
  ELSE LET i == CHOOSE k \in 1..Len(text) :
                  text[k] = "." /\ \A j \in 1..(k - 1) : text[j] # "."
       IN  <<SubSeq(text, 1, i - 1)>> \o split(SubSeq(text, i + 1, Len(text)))

\* translator[key] || ''
translator(key) ==
  CASE key = "%" -> <<"%">>
    [] key = "0" -> <<"f">>
    [] key = "s" -> <<"s">>
    [] OTHER -> <<>>

\* the specifier handed to d3's format; format('') for no value format
formatType(valueFormat) ==
  IF valueFormat = <<>> THEN <<>>
  ELSE LET symbol == IF InArray(valueFormat[1], <<"$", "£", "€">>)
                       THEN <<valueFormat[1]>> ELSE <<>>
           comma == IF Contains(valueFormat, ",") THEN <<",">> ELSE <<>>
           splitValueFormat == split(valueFormat)
           precision == IF Len(splitValueFormat) > 1
                          THEN Len(splitValueFormat[2]) ELSE 0
       IN  symbol \o comma \o <<".">> \o <<ToString(precision)>>
             \o translator(valueFormat[Len(valueFormat)])

fDimension(value) == IF value = Null THEN "(empty)" ELSE value

\* the text of a label: the dimension and the formatted primary measure
labelText(queryResponse, config, datum) ==
  [set |-> TRUE,
   dimension |-> fDimension(datum.label),
   measure |-> IF config.displayMeasure
                 THEN <<formatType(config.measureFormat), ToString(datum.value)>>
                 ELSE <<>>]

\* The stage at which update stops: "error" (the error check), a TypeError in
\* the gradient domain ("domain"), in the colour scale ("color"), in the
\* measure format ("format"), or "done".
updateStage(api, queryResponse, config, data, root) ==
  IF ~api THEN "noapi"
  ELSE IF hasErrorTitle(queryResponse) # <<>> THEN "error"
  ELSE IF isWeighted(queryResponse)
          /\ \E i \in 1..Len(data) : getCell(queryResponse, 1, data[i]).kind # "cell"
    THEN "domain"
  ELSE IF Len(root.children) = 0 THEN "color"
  ELSE IF config.displayMeasure /\ config.measureFormat = <<>>
          /\ ~Has(queryResponse.measures, 0)
    THEN "format"
  ELSE "done"

\* an update that empties the frame when the error check fails
updateNodesClearingOnError(old, uid0, queryResponse, config, data, root, stage) ==
  LET joined == join(old, joinData(root), uid0)
  IN  IF stage = "error" THEN <<>>
      ELSE IF stage \in {"noapi", "domain"} THEN old
      ELSE [i \in 1..Len(joined) |->
             [joined[i] EXCEPT
                !.fill = IF stage = "color" THEN @
                         ELSE boxFill(queryResponse, config, data, root, joined[i].datum),
                !.text = IF stage \in {"color", "format"} THEN @
                         ELSE labelText(queryResponse, config, joined[i].datum),
                !.on = IF stage \in {"color", "format"} THEN @
                       ELSE [bound |-> TRUE, queryResponse |-> queryResponse]]]

\* the node elements of the frame after update
updateNodes(old, uid0, queryResponse, config, data, root, stage) ==
  LET joined == join(old, joinData(root), uid0)
  IN  IF stage \in {"noapi", "error", "domain"} THEN old
      ELSE [i \in 1..Len(joined) |->
             [joined[i] EXCEPT
                !.fill = IF stage = "color" THEN @
                         ELSE boxFill(queryResponse, config, data, root, joined[i].datum),
                !.text = IF stage \in {"color", "format"} THEN @
                         ELSE labelText(queryResponse, config, joined[i].datum),
                !.on = IF stage \in {"color", "format"} THEN @
                       ELSE [bound |-> TRUE, queryResponse |-> queryResponse]]]
(***************************************************************************)
(* The layout: d3 treemap().size(...).paddingTop(...).round(true) with the *)
(* default squarify tiling. Coordinates are exact rationals n/d, d > 0, in *)
(* lowest terms; node values are not negative. The size is negative when   *)
(* the element is narrower or lower than twice the margin.                 *)
(***************************************************************************)
RECURSIVE GCD(_, _)
GCD(a, b) == IF b = 0 THEN a ELSE GCD(b, a % b)
Abs(n) == IF n < 0 THEN -n ELSE n
Rat(n, d) ==
  LET g == GCD(Abs(n), Abs(d))
      sign == IF d < 0 THEN -1 ELSE 1
  IN  [n |-> (sign * n) \div g, d |-> (sign * d) \div g]
RatAdd(a, b) == Rat(a.n * b.d + b.n * a.d, a.d * b.d)
RatSub(a, b) == Rat(a.n * b.d - b.n * a.d, a.d * b.d)
RatMul(a, b) == Rat(a.n * b.n, a.d * b.d)
RatDiv(a, b) == Rat(a.n * b.d, a.d * b.n)
RatLt(a, b) == a.n * b.d < b.n * a.d
RatMid(a, b) == RatMul(RatAdd(a, b), Rat(1, 2))
RECURSIVE RatPow(_, _)
RatPow(a, k) == IF k = 0 THEN Rat(1, 1) ELSE RatMul(a, RatPow(a, k - 1))
\* Math.round: the nearest integer, a half going up
Round(a) == (2 * a.n + a.d) \div (2 * a.d)

\* n/d > phi, the golden ratio (1 + sqrt 5) / 2 = 1 + 1/phi; n >= 0, d > 0
RECURSIVE AbovePhi(_, _)
AbovePhi(n, d) ==
  IF n <= d THEN FALSE
  ELSE IF n >= 2 * d THEN TRUE
  ELSE ~AbovePhi(d, n - d)
\* a > phi * phi = phi + 1
AbovePhiSquared(a) == AbovePhi(a.n - a.d, a.d)

Rect(x0, y0, x1, y1) == [x0 |-> x0, y0 |-> y0, x1 |-> x1, y1 |-> y1]

\* if (x1 < x0) x0 = x1 = (x0 + x1) / 2; if (y1 < y0) y0 = y1 = (y0 + y1) / 2
clamp(r) ==
  LET mx == RatMid(r.x0, r.x1)
      my == RatMid(r.y0, r.y1)
  IN  Rect(IF RatLt(r.x1, r.x0) THEN mx ELSE r.x0,
           IF RatLt(r.y1, r.y0) THEN my ELSE r.y0,
           IF RatLt(r.x1, r.x0) THEN mx ELSE r.x1,
           IF RatLt(r.y1, r.y0) THEN my ELSE r.y1)

\* paddingTop: dNode.depth && fontSize * 1.5 * Math.pow(1.4, dNode.height)
paddingTop(node, fontSize) ==
  IF node.depth = 0 THEN Rat(0, 1)
  ELSE RatMul(Rat(3 * fontSize, 2), RatPow(Rat(7, 5), node.height))

\* the sum of the values of siblings[i..j]
RangeValue(siblings, i, j) == SumSeq([k \in 1..(j - i + 1) |-> siblings[i + k - 1].value])

\* treemapDice: siblings[i0..i1] side by side along x, each as wide as its value
treemapDice(siblings, i0, i1, r) ==
  LET value == RangeValue(siblings, i0, i1)
      k == IF value = 0 THEN Rat(0, 1) ELSE RatDiv(RatSub(r.x1, r.x0), Rat(value, 1))
  IN  [j \in 1..(i1 - i0 + 1) |->
         Rect(RatAdd(r.x0, RatMul(k, Rat(RangeValue(siblings, i0, i0 + j - 2), 1))),
              r.y0,
              RatAdd(r.x0, RatMul(k, Rat(RangeValue(siblings, i0, i0 + j - 1), 1))),
              r.y1)]

\* treemapSlice: siblings[i0..i1] one below the other along y
treemapSlice(siblings, i0, i1, r) ==
  LET value == RangeValue(siblings, i0, i1)
      k == IF value = 0 THEN Rat(0, 1) ELSE RatDiv(RatSub(r.y1, r.y0), Rat(value, 1))
  IN  [j \in 1..(i1 - i0 + 1) |->
         Rect(r.x0,
              RatAdd(r.y0, RatMul(k, Rat(RangeValue(siblings, i0, i0 + j - 2), 1))),
              r.x1,
              RatAdd(r.y0, RatMul(k, Rat(RangeValue(siblings, i0, i0 + j - 1), 1))))]

\* Math.max(maxValue / beta, beta / minValue) of a row of sum sumValue, with
\* beta = sumValue^2 * alpha and alpha = aspect / (value * phi); both terms
\* are kept times aspect / (value * phi): the first is then the rational
\* plain, the second is over / phi^2; infinite when minValue is 0
rowRatio(rowValue, minValue, maxValue, aspect, value) ==
  [infinite |-> minValue = 0,
   plain |-> Rat(maxValue, rowValue * rowValue),
   over |-> IF minValue = 0 THEN Rat(0, 1)
            ELSE RatDiv(RatMul(Rat(rowValue * rowValue, minValue),
                               RatMul(aspect, aspect)),
                        Rat(value * value, 1))]

\* newRatio > minRatio
worse(newRatio, minRatio) ==
  IF minRatio.infinite THEN FALSE
  ELSE IF newRatio.infinite THEN TRUE
  ELSE \/ /\ RatLt(minRatio.plain, newRatio.plain)
          /\ ~AbovePhiSquared(RatDiv(minRatio.over, newRatio.plain))
       \/ /\ AbovePhiSquared(RatDiv(newRatio.over, minRatio.plain))
          /\ RatLt(minRatio.over, newRatio.over)

\* the last node of the row that starts at i0: siblings are added while the
\* aspect ratio of the row maintains or improves
RECURSIVE extendRow(_, _, _, _, _, _, _, _)
extendRow(siblings, i1, rowValue, minValue, maxValue, minRatio, aspect, value) ==
  IF i1 > Len(siblings) THEN Len(siblings)
  ELSE LET nodeValue == siblings[i1].value
           newSum == rowValue + nodeValue
           newMin == IF nodeValue < minValue THEN nodeValue ELSE minValue
           newMax == IF nodeValue > maxValue THEN nodeValue ELSE maxValue
           newRatio == rowRatio(newSum, newMin, newMax, aspect, value)
       IN  IF worse(newRatio, minRatio) THEN i1 - 1
           ELSE extendRow(siblings, i1 + 1, newSum, newMin, newMax, newRatio,
                          aspect, value)

\* squarify: the rectangles of siblings[i0..], value being what is left of the
\* parent's value and r what is left of its rectangle
RECURSIVE squarify(_, _, _, _)
squarify(siblings, i0, value, r) ==
  IF i0 > Len(siblings) THEN <<>>
  ELSE
    LET dx == RatSub(r.x1, r.x0)
        dy == RatSub(r.y1, r.y0)
        \* alpha is Infinity or NaN and no comparison ends the row
        unbounded == dx.n = 0 \/ dy.n = 0 \/ value = 0
        \* the next non-empty node, or the last node
        first == IF \E j \in i0..Len(siblings) : siblings[j].value # 0
                   THEN CHOOSE j \in i0..Len(siblings) :
                          /\ siblings[j].value # 0
                          /\ \A k \in i0..(j - 1) : siblings[k].value = 0
                   ELSE Len(siblings)
        aspect == IF unbounded THEN Rat(1, 1)
                  ELSE IF RatLt(dx, dy) THEN RatDiv(dy, dx) ELSE RatDiv(dx, dy)
        i1 == IF unbounded THEN Len(siblings)
              ELSE extendRow(siblings, first + 1, siblings[first].value,
                             siblings[first].value, siblings[first].value,
                             rowRatio(siblings[first].value, siblings[first].value,
                                      siblings[first].value, aspect, value),
                             aspect, value)
        rowValue == RangeValue(siblings, i0, i1)
        dice == RatLt(dx, dy)
        yEnd == IF value # 0
                  THEN RatAdd(r.y0, RatDiv(RatMul(dy, Rat(rowValue, 1)), Rat(value, 1)))
                  ELSE r.y1
        xEnd == IF value # 0
                  THEN RatAdd(r.x0, RatDiv(RatMul(dx, Rat(rowValue, 1)), Rat(value, 1)))
                  ELSE r.x1
    IN  IF dice
          THEN treemapDice(siblings, i0, i1, Rect(r.x0, r.y0, r.x1, yEnd))
                 \o squarify(siblings, i1 + 1, value - rowValue,
                             Rect(r.x0, yEnd, r.x1, r.y1))
          ELSE treemapSlice(siblings, i0, i1, Rect(r.x0, r.y0, xEnd, r.y1))
                 \o squarify(siblings, i1 + 1, value - rowValue,
                             Rect(xEnd, r.y0, r.x1, r.y1))

\* positionNode, for the node and then for its descendants: the node takes
\* the rectangle its parent's tiling gave it; its children tile what is left
\* below its header band. The padding between nodes is 0.
RECURSIVE positionNode(_, _, _)
positionNode(node, given, fontSize) ==
  LET r == clamp(given)
      inner == clamp(Rect(r.x0, RatAdd(r.y0, paddingTop(node, fontSize)),
                          r.x1, r.y1))
      tiles == squarify(node.children, 1, node.value, inner)
  IN  <<[path |-> node.path, depth |-> node.depth, height |-> node.height,
         rect |-> r]>>
        \o Concat([i \in 1..Len(node.children) |->
                     positionNode(node.children[i], tiles[i], fontSize)])

\* roundNode
roundNode(r) == Rect(Round(r.x0), Round(r.y0), Round(r.x1), Round(r.y1))

\* layout(root): the node rectangles, the root's first, each node before its
\* descendants; size([width - 2 * MARGIN, height - 2 * MARGIN]), round(true)
layout(root, element, fontSize) ==
  LET placed == positionNode(root,
                  Rect(Rat(0, 1), Rat(0, 1),
                       Rat(element.clientWidth - 2 * MARGIN, 1),
                       Rat(element.clientHeight - 2 * MARGIN, 1)),
                  fontSize)
  IN  [i \in 1..Len(placed) |->
         [placed[i] EXCEPT !.rect = roundNode(placed[i].rect)]]

(***************************************************************************)
(* The class of a label: 'label', and 'occluded' when it is clipped.       *)
(***************************************************************************)
\* a DOMRect, as getBoundingClientRect returns it
DOMRect(left, top, right, bottom) ==
  [left |-> left, top |-> top, right |-> right, bottom |-> bottom]

\* an occlusion test that does not look at the option
occludedWithoutOption(hideClippedLabels, label, rect) ==
  \/ label.left < rect.left
  \/ label.right > rect.right
  \/ label.top < rect.top
  \/ label.bottom > rect.bottom

\* rect && hideClippedLabels && (label.left < rect.left || ...); the box of a
\* node group is always there
occluded(hideClippedLabels, label, rect) ==
  /\ hideClippedLabels
  /\ \/ label.left < rect.left
     \/ label.right > rect.right
     \/ label.top < rect.top
     \/ label.bottom > rect.bottom

\* clsx('label', { occluded })
clsx(flag) == IF flag THEN <<"label", "occluded">> ELSE <<"label">>

(***************************************************************************)
(* activateCell: the drill link of a node.                                 *)
(***************************************************************************)
\* URLSearchParams.get: the first value of the name, or null
NoValue == "<null>"
searchGet(params, key) ==
  IF \E i \in 1..Len(params) : params[i].key = key
    THEN params[CHOOSE i \in 1..Len(params) :
                  /\ params[i].key = key
                  /\ \A j \in 1..(i - 1) : params[j].key # key].value
    ELSE NoValue

\* URLSearchParams.delete: every pair of the name goes
RECURSIVE searchDelete(_, _)
searchDelete(params, key) ==
  IF params = <<>> THEN <<>>
  ELSE IF Head(params).key = key THEN searchDelete(Tail(params), key)
  ELSE <<Head(params)>> \o searchDelete(Tail(params), key)

\* acc.searchParams.forEach((value, key) => { if (url.searchParams.get(key) !==
\* value) acc.searchParams.delete(key) }): forEach walks the live list by index
RECURSIVE forEachDelete(_, _, _)
forEachDelete(acc, i, other) ==
  IF i > Len(acc) THEN acc
  ELSE IF searchGet(other, acc[i].key) # acc[i].value
         THEN forEachDelete(searchDelete(acc, acc[i].key), i + 1, other)
         ELSE forEachDelete(acc, i + 1, other)

\* links.reduce((acc, url) => ..., no initial value): acc is the first link
RECURSIVE reduceLinks(_, _)
reduceLinks(acc, rest) ==
  IF rest = <<>> THEN acc
  ELSE reduceLinks(
         Url(acc.pathname, forEachDelete(acc.searchParams, 1, Head(rest).searchParams)),
         Tail(rest))

\* candidate urls that fall back to the page itself when no leaf has a link
candidateLinksOrPage(queryResponse, datum) ==
  LET links == Concat([i \in 1..Len(datum.rows) |->
                         getCell(queryResponse, 0, datum.rows[i]).cell.links])
  IN  IF links = <<>> THEN <<Url("/", <<>>)>> ELSE links

\* the candidate urls of a node: the links of the primary cells of its leaves
candidateLinks(queryResponse, datum) ==
  Concat([i \in 1..Len(datum.rows) |->
            getCell(queryResponse, 0, datum.rows[i]).cell.links])

\* a drill url that keeps the path of the first link only
drillUrlPathOnly(links) == Url(Head(links).pathname, <<>>)

\* the url of the link handed to openDrillMenu; links is not empty
drillUrl(links) == reduceLinks(Head(links), Tail(links))

NoDrill == [opened |-> FALSE, label |-> <<>>, url |-> Url("", <<>>)]
DrillLink(datum, links) ==
  [opened |-> TRUE,
   label |-> <<"Show all for", fDimension(datum.label)>>,
   url |-> drillUrl(links)]

(***************************************************************************)
(* The focus ring. rings: the rects of class focus-ring in the frame, each *)
(* with the uid of the node group it was drawn for; attached: this.focusRing *)
(* is a rect of the frame (the one appended last); focused: the node group *)
(* that has the focus, or 0; event: the latest focus or blur event.        *)
(***************************************************************************)
NoFocus == [rings |-> <<>>, attached |-> FALSE, focused |-> 0, event |-> "none"]

\* .on('focus', ...): this.focusRing = this.frame.append('rect')...
onFocus(f, node) == [f EXCEPT !.rings = Append(@, node.uid), !.attached = TRUE]

\* .on('blur', ...): this.focusRing?.remove()
onBlur(f) ==
  IF f.attached
    THEN [f EXCEPT !.rings = SubSeq(@, 1, Len(@) - 1), !.attached = FALSE]
    ELSE f

(***************************************************************************)
(* The operations.                                                         *)
(***************************************************************************)
\* the latest operation: its name, where it stopped, what it returned, the node
\* element or the field counts or the query response it was given
Last(op, stage, ret, node, counts) ==
  [op |-> op, stage |-> stage, ret |-> ret, node |-> node, counts |-> counts,
   queryResponse |-> QueryResponse(0, 0, 0, 0), value |-> <<>>]

\* vis.update(data, element, config, queryResponse)
UpdateWith(data, config, queryResponse) ==
  LET root == rootOf(data, queryResponse)
      stage == updateStage(errorApi, queryResponse, config, data, root)
      after == updateNodes(nodes, uid, queryResponse, config, data, root, stage)
      bound == Len(descendants(root)) - 1
      entered == IF stage \in {"noapi", "error", "domain"} \/ bound <= Len(nodes)
                   THEN 0 ELSE bound - Len(nodes)
      \* the focused node group leaves the frame; whether the browser sends it a
      \* blur event then depends on the browser
      removed == IF stage \in {"noapi", "error", "domain"} THEN FALSE
                 ELSE focus.focused > bound
  IN  /\ uid + entered <= MaxUid
      /\ uid' = IF entered = 0 THEN uid ELSE generateUids(uid, entered)
      /\ focus' \in IF removed
                      THEN {[focus EXCEPT !.focused = 0],
                            [onBlur(focus) EXCEPT !.focused = 0, !.event = "blur"]}
                      ELSE {focus}
      /\ errors' = IF stage = "noapi" THEN errors
                   ELSE hasError(errors, queryResponse).errors
      /\ nodes' = after
      /\ last' = [Last("update", stage, FALSE, 0, <<0, 0, 0>>)
                     EXCEPT !.queryResponse = queryResponse]
      /\ UNCHANGED <<errorApi, drill, host, options>>

\* a click, or Space / Enter, on node element i
ActivateCell(i) ==
  /\ i \in 1..Len(nodes)
  /\ nodes[i].on.bound
  /\ LET links == candidateLinks(nodes[i].on.queryResponse, nodes[i].datum)
     IN  /\ drill' = IF links = <<>> THEN drill ELSE DrillLink(nodes[i].datum, links)
         /\ last' = Last("activateCell", "done", links # <<>>, i, <<0, 0, 0>>)
  /\ UNCHANGED <<uid, errors, errorApi, nodes, host, options, focus>>

\* the focus moves to node element i: the browser sends a blur event to the
\* node that had the focus, if any, and a focus event to i
Focus(i) ==
  /\ i \in 1..Len(nodes)
  /\ nodes[i].on.bound
  /\ focus.focused # i
  /\ Len(focus.rings) < MaxRings
  /\ focus' = [onFocus(IF focus.focused # 0 THEN onBlur(focus) ELSE focus, nodes[i])
                 EXCEPT !.focused = i, !.event = "focus"]
  /\ last' = Last("focus", "done", FALSE, i, <<0, 0, 0>>)
  /\ UNCHANGED <<uid, errors, errorApi, nodes, drill, host, options>>

\* the focused node element loses the focus: the browser sends it a blur event
Blur ==
  /\ focus.focused # 0
  /\ focus' = [onBlur(focus) EXCEPT !.focused = 0, !.event = "blur"]
  /\ last' = Last("blur", "done", FALSE, focus.focused, <<0, 0, 0>>)
  /\ UNCHANGED <<uid, errors, errorApi, nodes, drill, host, options>>

\* the layout step of update: layout(root) of the summed and sorted hierarchy
Layout(data, element, config, queryResponse) ==
  /\ last' = [Last("layout", "done", FALSE, 0, <<0, 0, 0>>)
                 EXCEPT !.value = layout(rootOf(data, queryResponse), element,
                                         config.fontSize)]
  /\ UNCHANGED <<uid, errors, errorApi, nodes, drill, host, options, focus>>

\* the sum step of update: for every node of the summed hierarchy, its path,
\* its value and the primary cell values of its leaves
Sum(data, queryResponse) ==
  LET all == descendants(sumScalars(queryResponse,
                           buildHierarchy(data, DimensionFields(queryResponse))))
  IN  /\ last' = [Last("sum", "done", FALSE, 0, <<0, 0, 0>>)
                     EXCEPT !.value =
                       [i \in 1..Len(all) |->
                          [path |-> all[i].path, value |-> all[i].value,
                           cells |-> LET ls == leaves(all[i])
                                     IN  Concat([k \in 1..Len(ls) |->
                                           IF ls[k].isMap THEN <<>>
                                           ELSE <<ls[k].row.p.value>>])]]]
      /\ UNCHANGED <<uid, errors, errorApi, nodes, drill, host, options, focus>>

\* the label step of update: for every node below the root, the rectangle the
\* layout gave it, the bounding boxes the browser reports for its box and for
\* its label, and the class the label gets. measure: how far the label's
\* bounding box lies from the box's on each side
Labels(data, element, config, queryResponse, measure) ==
  LET placed == layout(rootOf(data, queryResponse), element, config.fontSize)
      class(r) ==
        LET rect == DOMRect(r.x0, r.y0, r.x1, r.y1)
            label == DOMRect(r.x0 + measure.left, r.y0 + measure.top,
                             r.x1 + measure.right, r.y1 + measure.bottom)
        IN  [rect |-> r, box |-> rect, label |-> label,
             class |-> clsx(occluded(config.hideClippedLabels, label, rect))]
  IN  /\ last' = [Last("labels", "done", FALSE, 0, <<0, 0, 0>>)
                     EXCEPT !.value =
                       [i \in 1..(Len(placed) - 1) |-> class(placed[i + 1].rect)]]
      /\ UNCHANGED <<uid, errors, errorApi, nodes, drill, host, options, focus>>

\* buildHierarchy(data, dimensions)
BuildHierarchy(data, dimensions) ==
  /\ last' = [Last("buildHierarchy", "done", FALSE, 0, <<0, 0, 0>>)
                 EXCEPT !.value = buildHierarchy(data, dimensions)]
  /\ UNCHANGED <<uid, errors, errorApi, nodes, drill, host, options, focus>>

\* formatType(valueFormat), as update calls it for the labels
FormatType(valueFormat) ==
  /\ last' = [Last("formatType", "done", FALSE, 0, <<0, 0, 0>>)
                 EXCEPT !.value = formatType(valueFormat)]
  /\ UNCHANGED <<uid, errors, errorApi, nodes, drill, host, options, focus>>

\* validateResponse(vis, res, options) of a response with these field counts
ValidateResponse(counts) ==
  LET r == validateResponse(errorApi, errors, counts, options)
  IN  /\ errors' = r.errors
      /\ last' = Last("validateResponse", "done", r.ret, 0, counts)
      /\ UNCHANGED <<uid, errorApi, nodes, drill, host, options, focus>>
(***************************************************************************)
(* The inputs the host can send.                                           *)
(***************************************************************************)
DefaultConfig == Config(FALSE, Unset, Unset, <<>>, <<>>, <<>>)
DimTuples == {<<k1, k2>> : k1 \in DimKeys[1], k2 \in DimKeys[2]}
\* element: the clientWidth and clientHeight of the element update is given
Element(width, height) == [clientWidth |-> width, clientHeight |-> height]
Args(data, config, queryResponse) ==
  [data |-> data, config |-> config, queryResponse |-> queryResponse,
   element |-> Element(400, 300)]

\* rows without links, with every primary and secondary value
PlainRows(svals) ==
  {Row(d, Cell(p, <<>>), Cell(s, <<>>)) : d \in DimTuples, p \in PVals, s \in svals}

\* every dimension and two measures (sized and coloured), or one or more
\* dimensions and one measure (sized only)
PipelineInputs ==
  {Args(data, DefaultConfig, QueryResponse(Len(DimNames), 2, 0, 0)) :
     data \in SeqsUpTo(PlainRows(SVals), MaxRows)}
  \cup
  {Args(data, DefaultConfig, QueryResponse(nd, 1, 0, 0)) :
     data \in SeqsUpTo(PlainRows({0}), MaxRows), nd \in 1..Len(DimNames)}

\* link urls: a path and query parameters of different names, in any order
Params == {Param(k, v) : k \in ParamKeys, v \in ParamVals}
ParamLists ==
  {ps \in SeqsUpTo(Params, Cardinality(ParamKeys)) :
     \A i, j \in 1..Len(ps) : i # j => ps[i].key # ps[j].key}
Urls == {Url(p, ps) : p \in Paths, ps \in ParamLists}
LinkLists == {<<>>} \cup {<<u>> : u \in Urls}

\* two rows under one top-level branch, each with at most one link
DrillInputs ==
  {Args(<<Row(<<"a", "x">>, Cell(2, l1), Cell(0, <<>>)),
          Row(<<"a", Null>>, Cell(1, l2), Cell(0, <<>>))>>,
        DefaultConfig, QueryResponse(2, 1, 0, 0)) :
     l1 \in LinkLists, l2 \in LinkLists}

\* the update calls of the life-cycle specification
LifeUrl1 == Url("/A", <<Param("x", "1"), Param("y", "2")>>)
LifeUrl2 == Url("/A", <<Param("x", "1"), Param("y", "1")>>)
LifeRows ==
  <<Row(<<"a", "x">>, Cell(2, <<LifeUrl1>>), Cell(1, <<>>)),
    Row(<<"b", Null>>, Cell(1, <<LifeUrl2>>), Cell(0, <<>>))>>
LifeData == {SubSeq(LifeRows, 1, k) : k \in 0..Len(LifeRows)}
LifeResponses ==
  {QueryResponse(0, 1, 0, 0), QueryResponse(1, 0, 0, 0), QueryResponse(1, 1, 0, 0),
   QueryResponse(2, 2, 0, 0), QueryResponse(1, 0, 1, 0), QueryResponse(1, 0, 1, 2)}
LifeConfigs == {DefaultConfig, Config(TRUE, Unset, Unset, <<>>, <<>>, <<>>)}

\* ValidationOptions
OptVals == {Unset, Num(0), Num(1)}
ValidationOptions(minP, maxP, minD, maxD, minM, maxM) ==
  [min_pivots |-> minP, max_pivots |-> maxP, min_dimensions |-> minD,
   max_dimensions |-> maxD, min_measures |-> minM, max_measures |-> maxM]
AllOptions ==
  {ValidationOptions(a, b, c, d, e, f) :
     a \in OptVals, b \in OptVals, c \in OptVals, d \in OptVals, e \in OptVals,
     f \in OptVals}
\* the options of the treemap visualization's own call
TreemapOptions == ValidationOptions(Unset, Unset, Num(1), Unset, Num(1), Num(2))
Counts == {<<p, d, m>> : p \in 0..MaxCount, d \in 0..MaxCount, m \in 0..MaxCount}

(***************************************************************************)
(* Specifications.                                                         *)
(***************************************************************************)
NoArgs == Args(<<>>, DefaultConfig, QueryResponse(0, 0, 0, 0))

\* the state after create()
Created(args, opts, api) ==
  /\ uid = 0
  /\ errors = {}
  /\ errorApi = api
  /\ nodes = <<>>
  /\ drill = NoDrill
  /\ host = args
  /\ options = opts
  /\ focus = NoFocus
  /\ last = Last("create", "done", FALSE, 0, <<0, 0, 0>>)

\* The life cycle of the visualization: the host calls update with any
\* response and activates any rendered node.
Init == Created(NoArgs, TreemapOptions, TRUE)

Update ==
  \E data \in LifeData, config \in LifeConfigs,
     queryResponse \in LifeResponses :
    UpdateWith(data, config, queryResponse)

Activate == \E i \in 1..Len(nodes) : ActivateCell(i)

Next == Update \/ Activate

Spec == Init /\ [][Next]_vars

\* One update cycle of the pipeline on a query result the host holds, then
\* activations.
FirstUpdate ==
  /\ last.op = "create"
  /\ UpdateWith(host.data, host.config, host.queryResponse)

InitPipeline == \E args \in PipelineInputs : Created(args, TreemapOptions, TRUE)

SpecPipeline == InitPipeline /\ [][FirstUpdate]_vars

\* One update cycle on rows that carry links, then activations.
InitDrill == \E args \in DrillInputs : Created(args, TreemapOptions, TRUE)

NextDrill == FirstUpdate \/ Activate

SpecDrill == InitDrill /\ [][NextDrill]_vars

\* validateResponse on the response the host holds, under every
\* ValidationOptions, on hosts with and without the error functions.
\* res.fields: pivots, dimensions, measure_like
fieldCounts(queryResponse) ==
  <<queryResponse.pivots, queryResponse.dimensions,
    queryResponse.measures + queryResponse.table_calculations>>

ValidateHost == ValidateResponse(fieldCounts(host.queryResponse))

InitValidate ==
  \E opts \in AllOptions, api \in BOOLEAN, counts \in Counts :
    Created(Args(<<>>, DefaultConfig,
                 QueryResponse(counts[2], counts[3], 0, counts[1])), opts, api)

SpecValidate == InitValidate /\ [][ValidateHost]_vars

\* The error reports of one host: validateResponse calls and update calls in
\* any order.
ErrorOptions ==
  {TreemapOptions,
   ValidationOptions(Num(1), Num(1), Unset, Num(1), Num(0), Num(0))}

InitErrors == \E opts \in ErrorOptions : Created(NoArgs, opts, TRUE)

Validate == \E counts \in Counts : ValidateResponse(counts)

UpdateEmpty ==
  \E queryResponse \in LifeResponses : UpdateWith(<<>>, DefaultConfig, queryResponse)

NextErrors == Validate \/ UpdateEmpty

SpecErrors == InitErrors /\ [][NextErrors]_vars

\* buildHierarchy on the rows the host holds and the first dimension fields,
\* none included
HierarchyRows ==
  {Row(d, Cell(p, <<>>), Cell(0, <<>>)) : d \in DimTuples, p \in {1, 2}}

BuildHost ==
  /\ last.op = "create"
  /\ BuildHierarchy(host.data, DimensionFields(host.queryResponse))

InitHierarchy ==
  \E data \in SeqsUpTo(HierarchyRows, MaxRows), nd \in 0..Len(DimNames) :
    Created(Args(data, DefaultConfig, QueryResponse(nd, 1, 0, 0)),
            TreemapOptions, TRUE)

SpecHierarchy == InitHierarchy /\ [][BuildHost]_vars

\* One update cycle with a secondary measure under every choice of supplied
\* gradient bounds.
GradientRows ==
  {Row(d, Cell(1, <<>>), Cell(s, <<>>)) :
     d \in {<<"a", "x">>, <<"b", Null>>}, s \in {-1, 0, 2}}
GradientConfigs ==
  {Config(FALSE, lo, hi, <<>>, <<>>, <<>>) :
     lo \in {Unset, Num(0), Num(1)}, hi \in {Unset, Num(0), Num(3)}}

InitGradient ==
  \E data \in SeqsUpTo(GradientRows, MaxRows), config \in GradientConfigs :
    Created(Args(data, config, QueryResponse(Len(DimNames), 2, 0, 0)),
            TreemapOptions, TRUE)

SpecGradient == InitGradient /\ [][FirstUpdate]_vars

\* The layout of the rows the host holds in an element of a given size (one
\* of them of width 0), at font size 10.
LayoutRows ==
  {Row(d, Cell(p, <<>>), Cell(0, <<>>)) : d \in DimTuples, p \in {0, 1, 2}}
Elements == {Element(22, 12), Element(22, 62), Element(0, 12)}

LayoutHost ==
  /\ last.op = "create"
  /\ Layout(host.data, host.element, host.config, host.queryResponse)

InitLayout ==
  \E data \in SeqsUpTo(LayoutRows, MaxRows), element \in Elements,
     nd \in 1..Len(DimNames) :
    Created([Args(data, [DefaultConfig EXCEPT !.fontSize = 10],
                  QueryResponse(nd, 1, 0, 0))
               EXCEPT !.element = element],
            TreemapOptions, TRUE)

SpecLayout == InitLayout /\ [][LayoutHost]_vars

\* formatType on the measure format of the configuration the host holds
ValueFormats == SeqsUpTo(FormatChars, MaxFormat)

FormatHost ==
  /\ last.op = "create"
  /\ FormatType(host.config.measureFormat)

InitFormat ==
  \E valueFormat \in ValueFormats :
    Created(Args(<<>>, Config(TRUE, Unset, Unset, valueFormat, <<>>, <<>>),
                 QueryResponse(1, 1, 0, 0)), TreemapOptions, TRUE)

SpecFormat == InitFormat /\ [][FormatHost]_vars

\* The sum step on rows whose primary cell holds any scalar: a number, NaN,
\* an infinity, null, undefined or a text.
Scalars ==
  {Finite(0), Finite(1), NaN, Infinity(1), Infinity(-1),
   Scalar("null", 0), Scalar("undefined", 0), Scalar("string", 0)}
ScalarRows ==
  {Row(d, Cell(v, <<>>), Cell(0, <<>>)) :
     d \in {<<"a", "x">>, <<"a", Null>>}, v \in Scalars}

SumHost ==
  /\ last.op = "create"
  /\ Sum(host.data, host.queryResponse)

InitSum ==
  \E data \in SeqsUpTo(ScalarRows, MaxRows) :
    Created(Args(data, DefaultConfig, QueryResponse(Len(DimNames), 1, 0, 0)),
            TreemapOptions, TRUE)

SpecSum == InitSum /\ [][SumHost]_vars

\* The labels of one update cycle in an element of 22 by 62 at font size 10,
\* with the option hideClippedLabels on and off, under every measure of the
\* label's bounding box against the box's.
LabelRows ==
  {Row(<<"a", "x">>, Cell(1, <<>>), Cell(0, <<>>)),
   Row(<<"b", "x">>, Cell(2, <<>>), Cell(0, <<>>))}
Offsets == {-1, 0, 1}
Measures == {DOMRect(l, t, r, b) : l \in Offsets, t \in Offsets, r \in Offsets, b \in Offsets}

LabelsHost ==
  /\ last.op = "create"
  /\ \E measure \in Measures :
       Labels(host.data, host.element, host.config, host.queryResponse, measure)

InitLabels ==
  \E data \in SeqsUpTo(LabelRows, MaxRows), hideClippedLabels \in BOOLEAN :
    Created([Args(data, [DefaultConfig EXCEPT
                           !.hideClippedLabels = hideClippedLabels,
                           !.fontSize = 10],
                  QueryResponse(Len(DimNames), 1, 0, 0))
               EXCEPT !.element = Element(22, 62)],
            TreemapOptions, TRUE)

SpecLabels == InitLabels /\ [][LabelsHost]_vars

\* Updates of one dimension and one measure, with none, one or two rows, and
\* the focus moving between the rendered nodes.
UpdateRows ==
  \E data \in LifeData : UpdateWith(data, DefaultConfig, QueryResponse(1, 1, 0, 0))

FocusNode == \E i \in 1..Len(nodes) : Focus(i)

NextFocus == UpdateRows \/ FocusNode \/ Blur

SpecFocus == Init /\ [][NextFocus]_vars
(***************************************************************************)
(* Properties.                                                             *)
(***************************************************************************)
\* update ran the whole pipeline
Rendered == last.op = "update" /\ last.stage = "done"

Occurrences(seq, x) == Cardinality({i \in 1..Len(seq) : seq[i] = x})

\* the dimension values of a row, in the order of the dimension fields
DimensionValues(queryResponse, row) ==
  [k \in 1..queryResponse.dimensions |-> row.d[k]]

\* the rendered elements whose node is a child of the node of element j
IsChildElement(c, j) ==
  /\ Len(nodes[c].datum.path) = Len(nodes[j].datum.path) + 1
  /\ SubSeq(nodes[c].datum.path, 1, Len(nodes[j].datum.path)) = nodes[j].datum.path

ChildrenSize(j) ==
  SumSeq([c \in 1..Len(nodes) |->
            IF IsChildElement(c, j) THEN nodes[c].datum.value ELSE 0])

\* the sum of the primary values (the weights) of the leaves under element j,
\* and the sum of weight times secondary value
Weights(j) ==
  SumSeq([i \in 1..Len(nodes[j].datum.rows) |-> nodes[j].datum.rows[i].p.value])
WeightedValues(j) ==
  SumSeq([i \in 1..Len(nodes[j].datum.rows) |->
            nodes[j].datum.rows[i].p.value * nodes[j].datum.rows[i].s.value])

\* C1: after an update, every input row is exactly one leaf of the tree (as
\* many leaves hold it as the rows hold it), and the leaf found by following
\* the row's own dimension values from the root holds that row.
C1_EveryRowIsOneLeaf ==
  Rendered =>
    \A i \in 1..Len(host.data) :
      LET row == host.data[i]
      IN  /\ Cardinality({j \in 1..Len(nodes) :
                            /\ nodes[j].datum.height = 0
                            /\ nodes[j].datum.rows = <<row>>})
               = Occurrences(host.data, row)
          /\ \E j \in 1..Len(nodes) :
               /\ nodes[j].datum.path = DimensionValues(host.queryResponse, row)
               /\ nodes[j].datum.rows = <<row>>

\* C4: after an update, the size of every branch is the sum of the sizes of
\* its children, and the size of a leaf is the value of its primary cell.
C4_SizeIsSumOfChildren ==
  Rendered =>
    /\ \A j \in 1..Len(nodes) :
         IF nodes[j].datum.height > 0
           THEN nodes[j].datum.value = ChildrenSize(j)
           ELSE nodes[j].datum.value = nodes[j].datum.rows[1].p.value
    /\ rootOf(host.data, host.queryResponse).value
         = SumSeq([c \in 1..Len(nodes) |->
                     IF nodes[c].datum.depth = 1 THEN nodes[c].datum.value ELSE 0])

\* a branch with two children of different sizes has been reduced
C4_Witness ==
  /\ Rendered
  /\ \E j \in 1..Len(nodes), c1, c2 \in 1..Len(nodes) :
       /\ nodes[j].datum.height > 0
       /\ c1 # c2 /\ IsChildElement(c1, j) /\ IsChildElement(c2, j)
       /\ nodes[c1].datum.value > nodes[c2].datum.value
       /\ nodes[c2].datum.value > 0

\* C5: with a secondary field, the colour metric of every node whose weights
\* do not sum to zero is sum(w * v) / sum(w) over the leaves under it.
C5_ColourMetricIsWeightedMean ==
  (Rendered /\ isWeighted(host.queryResponse)) =>
    \A j \in 1..Len(nodes) :
      Weights(j) # 0 =>
        /\ nodes[j].fill.kind = "gradient"
        /\ nodes[j].fill.metric.d # 0
        /\ nodes[j].fill.metric.n * Weights(j)
             = WeightedValues(j) * nodes[j].fill.metric.d

\* a node over two leaves of different weights and values, and a leaf whose
\* weighted value is zero under a non-zero weight
C5_Witness ==
  /\ Rendered /\ isWeighted(host.queryResponse)
  /\ \E j, k \in 1..Len(nodes) :
       /\ Len(nodes[j].datum.rows) = 2
       /\ nodes[j].datum.rows[1].p.value # nodes[j].datum.rows[2].p.value
       /\ nodes[j].datum.rows[1].s.value # nodes[j].datum.rows[2].s.value
       /\ Weights(j) # 0 /\ WeightedValues(j) # 0
       /\ Weights(k) # 0 /\ WeightedValues(k) = 0

\* C6: with a secondary field, a node whose weights sum to zero is filled with
\* the categorical colour of its top-level branch, not with a gradient colour.
C6_ZeroWeightFallsBackToCategorical ==
  (Rendered /\ isWeighted(host.queryResponse)) =>
    \A j \in 1..Len(nodes) :
      Weights(j) = 0 => nodes[j].fill.kind = "categorical"
\* the candidate urls of the node activated last, as its handler read them
Candidates ==
  candidateLinks(nodes[last.node].on.queryResponse, nodes[last.node].datum)

Activated == last.op = "activateCell" /\ last.ret

\* the parameters of params whose value is the same in every url of others
RECURSIVE KeepParams(_, _)
KeepParams(params, others) ==
  IF params = <<>> THEN <<>>
  ELSE LET p == Head(params)
           agreed == \A i \in 1..Len(others) :
                       searchGet(others[i].searchParams, p.key) = p.value
       IN  (IF agreed THEN <<p>> ELSE <<>>) \o KeepParams(Tail(params), others)

\* C2: the drill link of an activated node keeps exactly those query
\* parameters of the first candidate url whose value is the same in every
\* other candidate url, wherever they stand in the first url.
C2_DrillKeepsAgreedParams ==
  Activated =>
    /\ drill.opened
    /\ drill.url.pathname = Head(Candidates).pathname
    /\ drill.url.searchParams
         = KeepParams(Head(Candidates).searchParams, Tail(Candidates))

\* C3: the drill link of an activated node is the same for every order of
\* its candidate urls.
C3_DrillIsOrderIndependent ==
  Activated =>
    \A f \in Permutations(1..Len(Candidates)) :
      drillUrl([i \in 1..Len(Candidates) |-> Candidates[f[i]]]) = drill.url
\* C7: an update whose response has no dimension field reports the
\* dimensions error to the host and changes no node and mints no uid.
C7_NoDimensionsNoGeometry ==
  [][(last'.op = "update" /\ last'.queryResponse.dimensions = 0) =>
       /\ \E e \in errors' : e.title = <<"Dimensions Required">>
       /\ Cardinality(errors') = 1
       /\ last'.stage = "error"
       /\ nodes' = nodes
       /\ uid' = uid]_vars

\* an update without dimensions came after a cycle that rendered nodes
C7_Witness ==
  /\ last.op = "update" /\ last.queryResponse.dimensions = 0
  /\ Len(nodes) > 0
  /\ \E e \in errors : e.title = <<"Dimensions Required">>

NoPrimaryMeasure(queryResponse) ==
  queryResponse.measures = 0 /\ queryResponse.table_calculations = 0

\* C8: an update whose response has a dimension but neither a first measure
\* nor a first table calculation reports the primary-measure error and does
\* not run the pipeline; with a first measure or a first table calculation
\* it reports no error.
C8_PrimaryMeasureRequired ==
  [][(last'.op = "update" /\ last'.queryResponse.dimensions >= 1) =>
       IF NoPrimaryMeasure(last'.queryResponse)
         THEN /\ \E e \in errors' : e.title = <<"Primary Measure Required">>
              /\ Cardinality(errors') = 1
              /\ last'.stage = "error"
              /\ nodes' = nodes
              /\ uid' = uid
         ELSE errors' = {}]_vars

\* an update without a primary measure came after a cycle that rendered nodes
C8_Witness ==
  /\ last.op = "update" /\ last.queryResponse.dimensions >= 1
  /\ NoPrimaryMeasure(last.queryResponse)
  /\ Len(nodes) > 0
  /\ \E e \in errors : e.title = <<"Primary Measure Required">>

\* count lies in the band [min, max]; an unset bound imposes no limit
InBand(count, min, max) ==
  /\ min.set => count >= min.v
  /\ max.set => count <= max.v

AllInBand(counts, opts) ==
  /\ InBand(counts[1], opts.min_pivots, opts.max_pivots)
  /\ InBand(counts[2], opts.min_dimensions, opts.max_dimensions)
  /\ InBand(counts[3], opts.min_measures, opts.max_measures)

\* C9: on a host with addError and clearErrors, validateResponse returns true
\* exactly when the three counts lie within their bands, and returns false
\* after adding an error otherwise.
C9_ValidateReturnsInBand ==
  (last.op = "validateResponse" /\ errorApi) =>
    /\ last.ret = AllInBand(last.counts, options)
    /\ ~AllInBand(last.counts, options) => errors # {}

CardinalityGroups == {"pivot-req", "dim-req", "mes-req"}

\* C10 as stated: every error the host holds carries a group id, a title and
\* a non-empty message.
C10_EveryErrorHasGroupTitleMessage ==
  \A e \in errors : e.group # NoGroup /\ e.title # <<>> /\ e.message # <<>>

\* C10 as amended: every error the host holds carries a title and a
\* non-empty message; the errors of validateResponse carry the id of their
\* group, the two errors of update carry no group id.
C10_EveryErrorHasTitleMessage ==
  \A e \in errors :
    /\ e.title # <<>>
    /\ e.message # <<>>
    /\ IF e.title \in {<<"Dimensions Required">>, <<"Primary Measure Required">>}
         THEN e.group = NoGroup
         ELSE e.group \in CardinalityGroups

\* the host holds an error of update and errors of validateResponse of both kinds
C10_Witness ==
  \E e1, e2, e3 \in errors :
    /\ e1.group = NoGroup
    /\ e2.group \in CardinalityGroups /\ e2.title[1] = "Not Enough"
    /\ e3.group \in CardinalityGroups /\ e3.title[1] = "Too many"
\* the elements that entered the frame in this step
Entered == {i \in 1..Len(nodes') : i > Len(nodes)}

\* C11: the counter starts at 0; every entering element takes one
\* generateUid call, whose value is above the counter before the call and is
\* the counter after it; the counter never goes down, so the identifiers of
\* the elements differ and none is above the counter.
C11_UidsStrictlyIncrease ==
  /\ uid = 0
  /\ [](\A i, j \in 1..Len(nodes) :
          /\ nodes[i].uid \in 1..uid
          /\ i # j => nodes[i].uid # nodes[j].uid)
  /\ [][/\ uid' >= uid
        /\ uid' = uid + Cardinality(Entered)
        /\ \A i \in Entered : nodes'[i].uid > uid /\ nodes'[i].uid <= uid'
        /\ \A i, j \in Entered : i < j => nodes'[i].uid < nodes'[j].uid]_vars

\* the first element carries an identifier handed out after the frame was
\* emptied and filled again
C11_Witness == Len(nodes) > 1 /\ nodes[1].uid > 2
\* no row under element i carries a link on its primary cell
NoLinkUnder(i) ==
  \A k \in 1..Len(nodes[i].datum.rows) : nodes[i].datum.rows[k].p.links = <<>>

\* C12: activating a node none of whose leaves carries a link on its primary
\* cell opens no drill menu and changes nothing else.
C12_NoLinkNoDrill ==
  [][(last'.op = "activateCell" /\ NoLinkUnder(last'.node)) =>
       /\ drill' = drill
       /\ ~last'.ret
       /\ UNCHANGED <<uid, errors, errorApi, nodes, host, options, focus>>]_vars

\* a leaf without a link was activated while its sibling carries one, and no
\* menu was opened
C12_Witness ==
  /\ last.op = "activateCell" /\ NoLinkUnder(last.node)
  /\ \E j \in 1..Len(nodes) : ~NoLinkUnder(j)
  /\ ~drill.opened
\* the links on the primary cells of the rows under element i, in leaf order
LinksUnder(i) ==
  Concat([k \in 1..Len(nodes[i].datum.rows) |-> nodes[i].datum.rows[k].p.links])

\* C13: when exactly one candidate link exists under the activated node, the
\* drill link has that link's path and that link's query parameters, all of
\* them and in the same order.
C13_SingleLinkIsKept ==
  (last.op = "activateCell" /\ Len(LinksUnder(last.node)) = 1) =>
    /\ drill.opened
    /\ drill.url.pathname = LinksUnder(last.node)[1].pathname
    /\ drill.url.searchParams = LinksUnder(last.node)[1].searchParams

\* a branch was activated whose only link, on its second leaf, has two parameters
C13_Witness ==
  /\ last.op = "activateCell" /\ Len(LinksUnder(last.node)) = 1
  /\ Len(nodes[last.node].datum.rows) = 2
  /\ nodes[last.node].datum.rows[1].p.links = <<>>
  /\ Len(LinksUnder(last.node)[1].searchParams) = 2
  /\ drill.opened
Formatted == last.op = "formatType" /\ host.config.measureFormat # <<>>

CurrencySymbols == {"$", "£", "€"}

\* C14: the specifier formatType builds begins with a currency prefix
\* exactly when the value format begins with one of $, £, €.
C14_CurrencyPrefix ==
  Formatted =>
    (last.value[1] \in CurrencySymbols
       <=> host.config.measureFormat[1] \in CurrencySymbols)

Digits == {"0", "1", "2", "3", "4", "5", "6", "7", "8", "9"}

\* the number of digit characters that follow the first dot of a text
RECURSIVE LeadingDigits(_)
LeadingDigits(text) ==
  IF text = <<>> \/ Head(text) \notin Digits THEN 0
  ELSE 1 + LeadingDigits(Tail(text))

DigitsAfterDot(text) ==
  IF ~Contains(text, ".") THEN 0
  ELSE LET i == CHOOSE k \in 1..Len(text) :
                  text[k] = "." /\ \A j \in 1..(k - 1) : text[j] # "."
       IN  LeadingDigits(SubSeq(text, i + 1, Len(text)))

\* the precision part of a specifier: the part after its dot
PrecisionOf(specifier) ==
  specifier[1 + CHOOSE k \in 1..Len(specifier) : specifier[k] = "."]

\* C15: the decimal-place count of the specifier is the number of digit
\* characters after the dot of the value format, 0 when it has no dot.
C15_DecimalPlaces ==
  Formatted =>
    PrecisionOf(last.value) = ToString(DigitsAfterDot(host.config.measureFormat))
Built == last.op = "buildHierarchy"

\* C16: with an empty dimension list the root has every input row as a leaf
\* child, one leaf per row.
C16_NoDimensionRootHoldsRows ==
  (Built /\ host.queryResponse.dimensions = 0) =>
    /\ Len(last.value.children) = Len(host.data)
    /\ \A i \in 1..Len(host.data) :
         /\ last.value.children[i].row = host.data[i]
         /\ last.value.children[i].children = <<>>

\* C17: in a tree built from n >= 1 dimensions the nodes at depth n are the
\* leaves: each wraps one row of the data and has no children, and every
\* node above depth n is a branch, with children when it is below the root.
C17_LeavesAtDimensionDepth ==
  (Built /\ host.queryResponse.dimensions >= 1) =>
    LET n == host.queryResponse.dimensions
        all == descendants(last.value)
    IN  \A i \in 1..Len(all) :
          /\ all[i].depth <= n
          /\ all[i].isMap <=> all[i].depth < n
          /\ all[i].depth = n =>
               /\ all[i].children = <<>>
               /\ \E k \in 1..Len(host.data) : host.data[k] = all[i].row
          /\ all[i].depth \in 1..(n - 1) => all[i].children # <<>>
          /\ all[i].depth = 0 => (all[i].children = <<>> <=> host.data = <<>>)

\* a tree of two dimensions with a branch over a leaf of null key and another leaf
C17_Witness ==
  /\ Built /\ host.queryResponse.dimensions = 2
  /\ \E i \in 1..Len(last.value.children) :
       /\ Len(last.value.children[i].children) = 2
       /\ last.value.children[i].children[1].label = Null
\* the secondary values of all rows the host holds
SecondaryValues == {host.data[i].s.value : i \in 1..Len(host.data)}

\* C18: with a secondary field the gradient domain is [lo, hi]: lo is
\* gradientMin when supplied, 0 included, else the least secondary value of
\* the rows; hi is gradientMax when supplied, else the greatest; each bound
\* on its own.
C18_GradientDomain ==
  (Rendered /\ isWeighted(host.queryResponse)) =>
    \A j \in 1..Len(nodes) :
      /\ nodes[j].fill.domain[1].set /\ nodes[j].fill.domain[2].set
      /\ nodes[j].fill.domain[1].v =
           IF host.config.gradientMin.set THEN host.config.gradientMin.v
           ELSE CHOOSE v \in SecondaryValues : \A w \in SecondaryValues : v <= w
      /\ nodes[j].fill.domain[2].v =
           IF host.config.gradientMax.set THEN host.config.gradientMax.v
           ELSE CHOOSE v \in SecondaryValues : \A w \in SecondaryValues : v >= w

\* a supplied lower bound 0 over rows whose least secondary value is -1, the
\* upper bound left to the rows
C18_Witness ==
  /\ Rendered /\ isWeighted(host.queryResponse)
  /\ host.config.gradientMin = Num(0) /\ ~host.config.gradientMax.set
  /\ -1 \in SecondaryValues /\ 2 \in SecondaryValues
  /\ nodes[1].fill.domain = <<Num(0), Num(2)>>
\* the element of the ancestor at depth 1 of element j (j itself at depth 1);
\* the elements at depth 1 come first, in the order of the root's children
TopElement(j) ==
  CHOOSE k \in 1..Len(nodes) :
    nodes[k].datum.depth = 1 /\ nodes[k].datum.label = nodes[j].datum.path[1]

\* C19: without a secondary field every node has the categorical colour of
\* the key of its ancestor at depth 1, the palette colour at that key's place
\* among the top-level branches; with a secondary field every node, branch or
\* leaf, has a gradient fill of the weighted mean over its own leaves.
C19_FillByBranchOrMetric ==
  Rendered =>
    \A j \in 1..Len(nodes) :
      IF isWeighted(host.queryResponse)
        THEN /\ nodes[j].fill.kind = "gradient"
             /\ nodes[j].fill.stops = DEFAULT_GRADIENT
             /\ nodes[j].fill.metric.n = WeightedValues(j)
             /\ WeightedValues(j) # 0 => nodes[j].fill.metric.d = Weights(j)
        ELSE /\ nodes[j].fill.kind = "categorical"
             /\ nodes[j].fill.color
                  = DEFAULT_PALETTE[((TopElement(j) - 1) % Len(DEFAULT_PALETTE)) + 1]
             /\ nodes[j].fill.color = nodes[TopElement(j)].fill.color

\* without a secondary field, a leaf at depth 2 under the second top-level
\* branch has the second palette colour, as its branch has
C19_Witness ==
  /\ Rendered /\ ~isWeighted(host.queryResponse)
  /\ \E j \in 1..Len(nodes) :
       /\ nodes[j].datum.depth = 2
       /\ TopElement(j) = 2
       /\ nodes[j].fill.color = DEFAULT_PALETTE[2]
       /\ nodes[1].fill.color = DEFAULT_PALETTE[1]
Laid == last.op = "layout"

\* entry c of the layout is a child of entry k
IsChildEntry(c, k) ==
  /\ last.value[c].depth = last.value[k].depth + 1
  /\ SubSeq(last.value[c].path, 1, last.value[k].depth) = last.value[k].path

\* C20: in the layout every child rectangle lies within its parent's
\* rectangle, below the parent's header band, and the rectangles of siblings
\* do not overlap.
C20_ChildrenInsideParent ==
  Laid =>
    \A k \in 1..Len(last.value) :
      \A c \in 1..Len(last.value) :
        IsChildEntry(c, k) =>
          LET parent == last.value[k].rect
              child == last.value[c].rect
              band == paddingTop(last.value[k], host.config.fontSize)
          IN  /\ child.x0 <= child.x1 /\ child.y0 <= child.y1
              /\ parent.x0 <= child.x0 /\ child.x1 <= parent.x1
              /\ child.y1 <= parent.y1
              /\ ~RatLt(Rat(child.y0, 1), RatAdd(Rat(parent.y0, 1), band))
              /\ \A b \in 1..Len(last.value) :
                   (IsChildEntry(b, k) /\ b # c) =>
                     LET other == last.value[b].rect
                     IN  \/ child.x1 <= other.x0 \/ other.x1 <= child.x0
                         \/ child.y1 <= other.y0 \/ other.y1 <= child.y0

\* C21: no rectangle coordinate produced by the layout is negative, whatever
\* the size of the rendering surface (a width or a height of 0 included) and
\* whatever the sizes of the nodes (0 included), the layout area being the
\* surface size minus twice the margin.
C21_NoNegativeCoordinate ==
  Laid =>
    \A k \in 1..Len(last.value) :
      LET rect == last.value[k].rect
      IN  rect.x0 >= 0 /\ rect.y0 >= 0 /\ rect.x1 >= 0 /\ rect.y1 >= 0

\* elements j and k are bound to children of the same node
Siblings(j, k) ==
  /\ nodes[j].datum.depth = nodes[k].datum.depth
  /\ SubSeq(nodes[j].datum.path, 1, nodes[j].datum.depth - 1)
       = SubSeq(nodes[k].datum.path, 1, nodes[k].datum.depth - 1)

\* the first row of the host's data that lies under the node of element j
FirstSeen(j) ==
  CHOOSE i \in 1..Len(host.data) :
    /\ SubSeq(host.data[i].d, 1, nodes[j].datum.depth) = nodes[j].datum.path
    /\ \A h \in 1..(i - 1) :
         SubSeq(host.data[h].d, 1, nodes[j].datum.depth) # nodes[j].datum.path

Summed == last.op = "sum"

\* the sum of the finite numbers among cell values
RECURSIVE FiniteSum(_)
FiniteSum(cells) ==
  IF cells = <<>> THEN 0
  ELSE (IF Head(cells).kind = "number" THEN Head(cells).n ELSE 0)
         + FiniteSum(Tail(cells))

\* C23: a leaf whose primary cell value is not a finite number (null,
\* undefined, NaN, an infinity, a text that is not a number) counts as 0 in
\* its own size and in the size of every ancestor: every size is the finite
\* sum of the finite primary values of the node's leaves.
C23_NonFiniteCountsAsZero ==
  Summed =>
    \A k \in 1..Len(last.value) :
      last.value[k].value = Finite(FiniteSum(last.value[k].cells))

Labelled == last.op = "labels"

\* the label's bounding box extends past the box's on at least one side
Clipped(entry) ==
  \/ entry.label.left < entry.box.left
  \/ entry.label.right > entry.box.right
  \/ entry.label.top < entry.box.top
  \/ entry.label.bottom > entry.box.bottom

\* C24: a label has the class occluded only when the option hideClippedLabels
\* is on and its bounding box extends past its box on at least one side; with
\* the option off no label has it; and the rectangle of every node is the one
\* the layout gave it, flagged or not.
C24_OccludedOnlyWhenOptionAndClipped ==
  Labelled =>
    LET placed == layout(rootOf(host.data, host.queryResponse), host.element,
                         host.config.fontSize)
    IN  /\ Len(last.value) = Len(placed) - 1
        /\ \A k \in 1..Len(last.value) :
             /\ "occluded" \in {last.value[k].class[i] : i \in 1..Len(last.value[k].class)}
                  => (host.config.hideClippedLabels /\ Clipped(last.value[k]))
             /\ ~host.config.hideClippedLabels => last.value[k].class = <<"label">>
             /\ last.value[k].rect = placed[k + 1].rect
             /\ last.value[k].box
                  = DOMRect(placed[k + 1].rect.x0, placed[k + 1].rect.y0,
                            placed[k + 1].rect.x1, placed[k + 1].rect.y1)

\* with the option on, a label that reaches past the right edge of its box is
\* flagged, on a rectangle of positive width and height
C24_Witness ==
  /\ Labelled /\ host.config.hideClippedLabels
  /\ \E k \in 1..Len(last.value) :
       /\ last.value[k].label.right > last.value[k].box.right
       /\ last.value[k].label.left >= last.value[k].box.left
       /\ last.value[k].class = <<"label", "occluded">>
       /\ last.value[k].rect.x0 < last.value[k].rect.x1
       /\ last.value[k].rect.y0 < last.value[k].rect.y1

\* C25: an update whose query response passes the error check (at least one
\* dimension, and a first measure or a first table calculation) runs the
\* whole pipeline without raising, whatever the rows (none included), also
\* when the primary value is a table calculation and there is no measure,
\* with displayMeasure on or off.
C25_ValidUpdateCompletes ==
  (last.op = "update" /\ hasErrorTitle(last.queryResponse) = <<>>)
    => last.stage = "done"

\* the groups whose count is outside its band
OutOfBand(counts, opts) ==
  {g \in CardinalityGroups :
     \/ g = "pivot-req" /\ ~InBand(counts[1], opts.min_pivots, opts.max_pivots)
     \/ g = "dim-req" /\ ~InBand(counts[2], opts.min_dimensions, opts.max_dimensions)
     \/ g = "mes-req" /\ ~InBand(counts[3], opts.min_measures, opts.max_measures)}

\* C26: after each validateResponse call the groups among pivot-req, dim-req
\* and mes-req of which the host holds an error are exactly the groups whose
\* count is outside its band in that call; an error of an earlier call whose
\* group is within its band now is gone.
C26_ErrorsAreLatestFailures ==
  last.op = "validateResponse" =>
    {e.group : e \in errors} \cap CardinalityGroups = OutOfBand(last.counts, options)

\* C27: after each update call the host holds an error if and only if that
\* call failed the error check, and then holds exactly one error, the one of
\* that call; no error of an earlier cycle is left.
C27_OneErrorIffLatestFailed ==
  last.op = "update" =>
    IF hasErrorTitle(last.queryResponse) # <<>>
      THEN errors = {Error(NoGroup, hasErrorTitle(last.queryResponse),
                           hasErrorMessage(last.queryResponse))}
      ELSE errors = {}

\* an update without a measure fails after a cycle that rendered nodes, which
\* are still in the frame, and the host holds its one error
C27_Witness ==
  /\ last.op = "update" /\ last.stage = "error"
  /\ Len(nodes) > 0
  /\ Cardinality(errors) = 1
  /\ \E e \in errors : e.title = <<"Primary Measure Required">>

\* this step is an update that fails the error check
FailedUpdate == last'.op = "update" /\ last'.stage = "error"

\* the drill link of the latest activation is the one of the data and the
\* query response the activated element holds
DrillOfElement ==
  (last.op = "activateCell" /\ last.ret) =>
    drill = DrillLink(nodes[last.node].datum,
                      candidateLinks(nodes[last.node].on.queryResponse,
                                     nodes[last.node].datum))

\* C28: an update that fails the error check leaves the frame as the previous
\* cycle left it: the node groups with their data, fills, labels, uids and
\* handlers, the uid counter and the last drill menu are unchanged; and an
\* activation resolves the drill link from the data and the query response of
\* the cycle that bound the element's handlers.
C28_FailedUpdateKeepsFrame ==
  /\ [][FailedUpdate => (nodes' = nodes /\ uid' = uid /\ drill' = drill)]_vars
  /\ []DrillOfElement

\* after an update that failed, a node of the earlier cycle is activated and
\* its drill menu opens on the link of that cycle's row
C28_Witness ==
  /\ last.op = "activateCell" /\ last.ret
  /\ errors # {}
  /\ drill.opened /\ drill.url.pathname = "/A"

\* C29: whatever updates went before (more nodes, fewer, as many), every node
\* group of the frame carries a data-uid, a value generateUid returned, and no
\* two node groups carry the same.
C29_RenderedUidsDistinct ==
  \A i \in 1..Len(nodes) :
    /\ nodes[i].uid \in 1..uid
    /\ \A j \in 1..Len(nodes) : i # j => nodes[i].uid # nodes[j].uid

\* the frame grew again after it had shrunk: a node group carries a uid above
\* the number of node groups, next to one of the first cycle
C29_Witness ==
  /\ Rendered
  /\ Len(nodes) >= 2
  /\ nodes[1].uid = 1
  /\ nodes[Len(nodes)].uid > Len(nodes)

\* C30: whatever focus and blur events and updates went before, the frame
\* contains at most one focus-ring rect, and none when the latest focus or
\* blur event was a blur.
C30_AtMostOneFocusRing ==
  /\ Len(focus.rings) <= 1
  /\ focus.event = "blur" => focus.rings = <<>>
====
